---- MODULE Spec2Model ----


(***************************************************************************)
(* Model of the trust core of sql-genius-ai:                               *)
(*   backend/auth/jwt_manager.py  JWTKeyManager, UnifiedAuthService        *)
(*   backend/auth/rbac.py         RBACService                              *)
(* All durable state lives in Redis; every record written with setex       *)
(* carries its expiry instant and is dropped when the clock reaches it.    *)
(***************************************************************************)
EXTENDS Integers, Sequences, FiniteSets, TLC

VARIABLES
    decode_responses,   \* whether the Redis client returns str (TRUE) or bytes (FALSE)
    now,                \* wall clock, seconds since service construction
    current_key,        \* "jwt:current_key": <<>> or <<[data, expires]>>
    key_store,          \* "jwt:key:{key_id}": key_id -> [data, expires]
    last_rotation,      \* "jwt:last_rotation": <<>> or <<[time, expires]>>
    scheduler_started,  \* _key_rotation_scheduler task created
    sessions,           \* "session:{session_id}": session_id -> [user_id, created_at, expires]
    user_sessions,      \* "user_sessions:{user_id}": user_id -> [members, expires]
    issued,             \* history: session_id -> what create_tokens signed for it
    revoked,            \* history: session ids a completed revocation was addressed to
    next_key_id,        \* uuid4 supply for key ids
    next_session_id,    \* uuid4 supply for session ids
    last_op,            \* history: the last token-service call and what it returned
    roles,              \* "rbac:role:{name}": name -> serialized Role
    user_roles,         \* "rbac:user_roles:{user_id}": user_id -> list of assignments
    perm_cache,         \* "rbac:user_permissions:{user_id}": user_id -> cached list
    rbac_op,            \* history: the last RBAC call and what it returned
    resolution,         \* the call frame of a _get_user_permissions in progress
    rotation,           \* the call frame of a _generate_new_key_pair in progress
    calls,              \* the call frames of token-service calls in progress
    mutations           \* the call frames of role assignments in progress

auth_vars == <<now, current_key, key_store, last_rotation, scheduler_started,
               sessions, user_sessions, issued, revoked, next_key_id,
               next_session_id, last_op>>
rbac_vars == <<roles, user_roles, perm_cache, rbac_op, resolution>>
frames == <<rotation, calls, mutations>>
vars == <<decode_responses, auth_vars, rbac_vars, frames>>

(***************************************************************************)
(* Bounds of the model.                                                    *)
(***************************************************************************)
MaxKeys == 2
MaxSessions == 2
MaxCapSessions == 6
MaxOtherSessions == 1
TickStep == 43200
MaxTime == 216000
MaxEarlySessions == 2
CapTickStep == 14400
MaxCapTime == 28800

Users == {"u1", "u2"}

(***************************************************************************)
(* Program constants.                                                      *)
(***************************************************************************)
key_rotation_interval == 86400
key_retention_period == 172800
session_timeout == 28800
max_sessions_per_user == 5
access_token_lifetime == 900
refresh_token_lifetime == 604800

Issuer == "https://sql-genius-ai.com"
Algorithm == "RS256"

\* Optional[...] values that are absent; ids handed out by uuid4 start at 1.
None == 0

(***************************************************************************)
(* Redis helpers.                                                          *)
(***************************************************************************)
\* A record stored with setex at time t and ttl n is readable while now < t + n.
Live(rec, t) == t < rec.expires

\* f"session:{session_id}" for an id read back from Redis with smembers: with a
\* str client the id formats as itself; with a bytes client it formats as
\* "b'...'", which is the name of no stored session.
FormatSessionId(member) == IF decode_responses THEN member ELSE None

Put(f, k, v) == [x \in DOMAIN f \cup {k} |-> IF x = k THEN v ELSE f[x]]
Drop(f, ks) == [x \in DOMAIN f \ ks |-> f[x]]

(***************************************************************************)
(* JWTKeyManager                                                           *)
(***************************************************************************)
KeyData(k, t) ==
    [key_id |-> k, private_key |-> k, public_key |-> k,
     created_at |-> t, algorithm |-> Algorithm]

\* _generate_new_key_pair: the three setex calls.
GenerateNewKeyPair ==
    LET rec == [data |-> KeyData(next_key_id, now),
                expires |-> now + key_retention_period]
    IN /\ current_key' = <<rec>>
       /\ key_store' = Put(key_store, next_key_id, rec)
       /\ last_rotation' = <<[time |-> now, expires |-> now + key_retention_period]>>
       /\ next_key_id' = next_key_id + 1

\* _get_current_key: the key data, or nothing.
GetCurrentKey == IF current_key = <<>> THEN <<>> ELSE <<current_key[1].data>>

\* scan_iter(match="jwt:key:*"): the stored keys that match, each one once.
RECURSIVE ScanIter(_)
ScanIter(ks) ==
    IF ks = {} THEN <<>>
    ELSE LET k == CHOOSE x \in ks : \A y \in ks : x <= y
         IN <<k>> \o ScanIter(ks \ {k})

\* The JWK built from one stored key record.
Jwk(data) ==
    [kty |-> "RSA", use |-> "sig", kid |-> data.key_id,
     alg |-> data.algorithm, n |-> data.public_key]

\* Mutant: the scan pattern also matches jwt:current_key.
GetJwks_ScansCurrent ==
    LET scan == ScanIter(DOMAIN key_store)
    IN [i \in 1..Len(scan) |-> Jwk(key_store[scan[i]].data)]
       \o (IF current_key = <<>> THEN <<>> ELSE <<Jwk(current_key[1].data)>>)

\* get_jwks: one JWK per record under jwt:key:*.
GetJwks ==
    LET scan == ScanIter(DOMAIN key_store)
    IN [i \in 1..Len(scan) |-> Jwk(key_store[scan[i]].data)]

\* Mutant: the key is served from a copy that never expires.
GetPublicKey_NeverExpires(key_id) ==
    IF key_id # None /\ key_id < next_key_id THEN <<key_id>> ELSE <<>>

\* get_public_key(key_id): the public key of a stored key, or nothing.
GetPublicKey(key_id) ==
    IF key_id \in DOMAIN key_store
    THEN <<key_store[key_id].data.public_key>>
    ELSE <<>>

(***************************************************************************)
(* Tokens.  A token is its header (kid, alg), the private key that made    *)
(* its signature (None: no key made it) and its payload.                   *)
(***************************************************************************)
\* _sign_token
SignToken(claims, key_data) ==
    [kid |-> key_data.key_id,
     alg |-> key_data.algorithm,
     sig |-> key_data.private_key,
     payload |-> claims]

\* The claims create_tokens builds; aud is `audience or ["api"]`.
Claims(user_id, audience, lifetime, token_type, session_id, t) ==
    [sub |-> user_id,
     iss |-> Issuer,
     aud |-> IF audience = {} THEN {"api"} ELSE audience,
     exp |-> t + lifetime,
     iat |-> t,
     nbf |-> t,
     token_type |-> token_type,
     session_id |-> session_id]

\* jwt.decode(token, public_key, algorithms=["RS256"], issuer=self.issuer,
\*            options={"verify_exp": True, "verify_nbf": True}):
\* the signature, then iat, nbf, exp, iss and aud.  No audience is passed, so
\* a token that carries an aud claim is refused.
JwtDecode(token, public_key, t) ==
    IF token.alg # "RS256" THEN "invalid_algorithm"
    ELSE IF token.sig # public_key THEN "invalid_signature"
    ELSE IF token.payload.iat > t THEN "immature"
    ELSE IF token.payload.nbf > t THEN "immature"
    ELSE IF token.payload.exp <= t THEN "expired"
    ELSE IF token.payload.iss # Issuer THEN "invalid_issuer"
    ELSE IF token.payload.aud # {} THEN "invalid_audience"
    ELSE "ok"

\* _is_session_valid
IsSessionValid(session_id) == session_id \in DOMAIN sessions

\* Mutant: ExpiredSignatureError is answered with the decoded claims of the
\* expired token instead of None.
VerifyToken_ExpiredDistinct(token) ==
    IF token.kid = None
    THEN [payload |-> <<>>, log |-> "missing_key_id"]
    ELSE LET public_key_pem == GetPublicKey(token.kid) IN
         IF public_key_pem = <<>>
         THEN [payload |-> <<>>, log |-> "unknown_key"]
         ELSE LET decoded == JwtDecode(token, public_key_pem[1], now) IN
              IF decoded = "expired"
              THEN [payload |-> <<token.payload>>, log |-> decoded]
              ELSE IF decoded # "ok"
              THEN [payload |-> <<>>, log |-> decoded]
              ELSE IF token.payload.session_id # None
                      /\ ~IsSessionValid(token.payload.session_id)
                   THEN [payload |-> <<>>, log |-> "invalid_session"]
                   ELSE [payload |-> <<token.payload>>, log |-> "ok"]

\* verify_token: the payload (or nothing) and the line it logs.
VerifyToken(token) ==
    IF token.kid = None
    THEN [payload |-> <<>>, log |-> "missing_key_id"]
    ELSE LET public_key_pem == GetPublicKey(token.kid) IN
         IF public_key_pem = <<>>
         THEN [payload |-> <<>>, log |-> "unknown_key"]
         ELSE LET decoded == JwtDecode(token, public_key_pem[1], now) IN
              IF decoded # "ok"
              THEN [payload |-> <<>>, log |-> decoded]
              ELSE IF token.payload.session_id # None
                      /\ ~IsSessionValid(token.payload.session_id)
                   THEN [payload |-> <<>>, log |-> "invalid_session"]
                   ELSE [payload |-> <<token.payload>>, log |-> "ok"]

(***************************************************************************)
(* Sessions                                                                *)
(***************************************************************************)
NoIndex == [members |-> {}, expires |-> 0]

\* created_at strings compare as the instants they denote; two sessions never
\* share one (microsecond stamps of calls that follow one another).
Earlier(a, b) == a[1] < b[1] \/ (a[1] = b[1] /\ a[2] < b[2])

\* _store_session: setex of the session, sadd and expire of the user's index.
StoreSession(sess, idx, session_id, user_id, t) ==
    [sess |-> Put(sess, session_id,
                  [user_id |-> user_id,
                   created_at |-> <<t, session_id>>,
                   expires |-> t + session_timeout]),
     idx |-> [idx EXCEPT ![user_id] =
                 [members |-> idx[user_id].members \cup {session_id},
                  expires |-> t + session_timeout]]]

\* srem; Redis drops a set that becomes empty.
SRem(entry, session_id) ==
    IF entry.members \ {session_id} = {}
    THEN NoIndex
    ELSE [entry EXCEPT !.members = entry.members \ {session_id}]

\* revoke_session(session_id) on a store st = [sess, idx].
RevokeSessionIn(st, session_id) ==
    [sess |-> Drop(st.sess, {session_id}),
     idx |-> IF session_id \in DOMAIN st.sess
             THEN [st.idx EXCEPT ![st.sess[session_id].user_id] =
                      SRem(st.idx[st.sess[session_id].user_id], session_id)]
             ELSE st.idx]

\* session_times.sort(key=lambda x: x[1]) over the sessions that were found.
RECURSIVE SortByCreated(_, _)
SortByCreated(ids, sess) ==
    IF ids = {} THEN <<>>
    ELSE LET first == CHOOSE s \in ids :
                         \A o \in ids \ {s} :
                            Earlier(sess[s].created_at, sess[o].created_at)
         IN <<first>> \o SortByCreated(ids \ {first}, sess)

\* session_times[:-max_sessions_per_user]
AllButLast(seq, n) == IF Len(seq) > n THEN SubSeq(seq, 1, Len(seq) - n) ELSE <<>>

\* The sessions _enforce_session_limits decides to remove for a user.
SessionsToRemove(sess, members) ==
    IF Cardinality(members) > max_sessions_per_user
    THEN LET found == {m \in members : FormatSessionId(m) \in DOMAIN sess}
         IN AllButLast(SortByCreated(found, sess), max_sessions_per_user)
    ELSE <<>>

RECURSIVE RevokeEach(_, _)
RevokeEach(st, seq) ==
    IF seq = <<>> THEN st
    ELSE RevokeEach(RevokeSessionIn(st, Head(seq)), Tail(seq))

\* _enforce_session_limits(user_id) on a store st = [sess, idx].
EnforceSessionLimits(st, user_id) ==
    RevokeEach(st, SessionsToRemove(st.sess, st.idx[user_id].members))

\* revoke_all_user_sessions(user_id): delete each f"session:{id}", then the index.
RevokeAllIn(st, user_id) ==
    [sess |-> Drop(st.sess, {FormatSessionId(m) : m \in st.idx[user_id].members}),
     idx |-> [st.idx EXCEPT ![user_id] = NoIndex]]

LiveSessionsOf(sess, user_id) == {s \in DOMAIN sess : sess[s].user_id = user_id}

(***************************************************************************)
(* Operations of the token service.                                        *)
(***************************************************************************)
Range(seq) == {seq[i] : i \in 1..Len(seq)}

OpRec(op, user, sid, ok, log, before, evicted) ==
    [op |-> op, user |-> user, sid |-> sid, ok |-> ok, log |-> log,
     before |-> before, evicted |-> evicted]

\* JWTKeyManager.initialize: a first (or, after every stored key has expired,
\* a fresh) key pair, and the rotation scheduler.
Initialize ==
    /\ IF GetCurrentKey = <<>>
       THEN GenerateNewKeyPair
       ELSE UNCHANGED <<current_key, key_store, last_rotation, next_key_id>>
    /\ scheduler_started' = TRUE
    /\ last_op' = OpRec("initialize", "", None, TRUE, "", {}, {})
    /\ UNCHANGED <<decode_responses, frames, now, sessions, user_sessions, issued,
                   revoked, next_session_id, rbac_vars>>

\* One pass of _key_rotation_scheduler that finds a rotation due.
\* datetime.fromisoformat wants a str: on what a bytes client returns it raises,
\* and the pass ends in the except branch.
RotationDue ==
    /\ last_rotation # <<>>
    /\ decode_responses
    /\ now - last_rotation[1].time > key_rotation_interval

\* The scheduler wakes every hour: once a rotation is due it is carried out
\* before half a day more goes by.
RotationPending == scheduler_started /\ RotationDue

SchedulerRotate ==
    /\ scheduler_started
    /\ RotationDue
    /\ GenerateNewKeyPair
    /\ last_op' = OpRec("rotate", "", None, TRUE, "", {}, {})
    /\ UNCHANGED <<decode_responses, frames, now, scheduler_started, sessions,
                   user_sessions, issued, revoked, next_session_id, rbac_vars>>

\* Mutant: the session is stored before the signing key is looked up.
CreateTokens_StoresFirst(user_id, audience) ==
    LET current == GetCurrentKey
        session_id == next_session_id
        stored == StoreSession(sessions, user_sessions, session_id, user_id, now)
        removed == Range(SessionsToRemove(stored.sess,
                                          stored.idx[user_id].members))
        final == EnforceSessionLimits(stored, user_id)
    IN IF current = <<>>
       THEN /\ sessions' = stored.sess
            /\ user_sessions' = stored.idx
            /\ next_session_id' = next_session_id + 1
            /\ last_op' = OpRec("create_tokens", user_id, None, FALSE,
                                "No signing key available", {}, {})
            /\ UNCHANGED <<decode_responses, frames, now, current_key, key_store,
                           last_rotation, scheduler_started, issued, revoked,
                           next_key_id, rbac_vars>>
       ELSE /\ sessions' = final.sess
            /\ user_sessions' = final.idx
            /\ issued' = Put(issued, session_id,
                   [access |-> SignToken(Claims(user_id, audience,
                                   access_token_lifetime, "access", session_id,
                                   now), current[1]),
                    refresh |-> SignToken(Claims(user_id, audience,
                                   refresh_token_lifetime, "refresh", session_id,
                                   now), current[1])])
            /\ revoked' = revoked \cup removed
            /\ next_session_id' = next_session_id + 1
            /\ last_op' = OpRec("create_tokens", user_id, session_id, TRUE, "",
                                LiveSessionsOf(sessions, user_id), removed)
            /\ UNCHANGED <<decode_responses, frames, now, current_key, key_store,
                           last_rotation, scheduler_started, next_key_id,
                           rbac_vars>>

\* create_tokens(user_id, tenant_id, scopes, audience)
CreateTokens(user_id, audience) ==
    LET current == GetCurrentKey IN
    IF current = <<>>
    THEN /\ last_op' = OpRec("create_tokens", user_id, None, FALSE,
                             "No signing key available", {}, {})
         /\ UNCHANGED <<decode_responses, frames, now, current_key, key_store,
                        last_rotation, scheduler_started, sessions,
                        user_sessions, issued, revoked, next_key_id,
                        next_session_id, rbac_vars>>
    ELSE LET session_id == next_session_id
             access_token ==
                 SignToken(Claims(user_id, audience, access_token_lifetime,
                                  "access", session_id, now), current[1])
             refresh_token ==
                 SignToken(Claims(user_id, audience, refresh_token_lifetime,
                                  "refresh", session_id, now), current[1])
             stored == StoreSession(sessions, user_sessions, session_id,
                                    user_id, now)
             removed == Range(SessionsToRemove(stored.sess,
                                               stored.idx[user_id].members))
             final == EnforceSessionLimits(stored, user_id)
         IN /\ sessions' = final.sess
            /\ user_sessions' = final.idx
            /\ issued' = Put(issued, session_id,
                             [access |-> access_token, refresh |-> refresh_token])
            /\ revoked' = revoked \cup removed
            /\ next_session_id' = next_session_id + 1
            /\ last_op' = OpRec("create_tokens", user_id, session_id, TRUE, "",
                                LiveSessionsOf(sessions, user_id), removed)
            /\ UNCHANGED <<decode_responses, frames, now, current_key, key_store,
                           last_rotation, scheduler_started, next_key_id,
                           rbac_vars>>

\* What a caller may present to verify_token: the tokens that were issued and
\* the same tokens with one part changed.
Variants(t) ==
    {t,
     [t EXCEPT !.payload.aud = {}],
     [t EXCEPT !.payload.aud = {}, !.payload.session_id = None],
     [t EXCEPT !.payload.aud = {}, !.sig = None],
     [t EXCEPT !.payload.aud = {}, !.kid = None],
     [t EXCEPT !.payload.aud = {}, !.alg = "HS256"],
     [t EXCEPT !.payload.aud = {}, !.payload.iss = "https://other.example"],
     [t EXCEPT !.payload.aud = {}, !.payload.nbf = t.payload.exp]}

IssuedTokens == UNION {{issued[s].access, issued[s].refresh} : s \in DOMAIN issued}
VerifyInputs == UNION {Variants(t) : t \in IssuedTokens}
\* The tokens the verification step is run on.
Presented == IssuedTokens \cup {[t EXCEPT !.payload.aud = {}] : t \in IssuedTokens}

VerifyTokenOp(token) ==
    LET res == VerifyToken(token) IN
    /\ last_op' = OpRec("verify_token", "", None, res.payload # <<>>,
                        res.log, {}, {})
    /\ UNCHANGED <<decode_responses, frames, now, current_key, key_store,
                   last_rotation, scheduler_started, sessions, user_sessions,
                   issued, revoked, next_key_id, next_session_id, rbac_vars>>

RevokeSession(session_id) ==
    LET final == RevokeSessionIn([sess |-> sessions, idx |-> user_sessions],
                                 session_id)
    IN /\ sessions' = final.sess
       /\ user_sessions' = final.idx
       /\ revoked' = revoked \cup {session_id}
       /\ last_op' = OpRec("revoke_session", "", None, TRUE, "", {}, {})
       /\ UNCHANGED <<decode_responses, frames, now, current_key, key_store,
                      last_rotation, scheduler_started, issued, next_key_id,
                      next_session_id, rbac_vars>>

RevokeAllUserSessions(user_id) ==
    LET final == RevokeAllIn([sess |-> sessions, idx |-> user_sessions], user_id)
    IN /\ sessions' = final.sess
       /\ user_sessions' = final.idx
       /\ revoked' = revoked \cup LiveSessionsOf(sessions, user_id)
       /\ last_op' = OpRec("revoke_all_user_sessions", user_id, None, TRUE, "",
                           {}, {})
       /\ UNCHANGED <<decode_responses, frames, now, current_key, key_store,
                      last_rotation, scheduler_started, issued, next_key_id,
                      next_session_id, rbac_vars>>

\* The JWKS endpoint: get_jwks is read and served; the store is unchanged.
GetJwksOp ==
    /\ last_op' = OpRec("get_jwks", "", None, GetJwks # <<>>, "", {}, {})
    /\ UNCHANGED <<decode_responses, frames, now, current_key, key_store,
                   last_rotation, scheduler_started, sessions, user_sessions,
                   issued, revoked, next_key_id, next_session_id, rbac_vars>>

\* Time passes; Redis drops what has reached its expiry.
Unexpired(f, t) == [x \in {y \in DOMAIN f : Live(f[y], t)} |-> f[x]]
UnexpiredOpt(o, t) == IF o # <<>> /\ Live(o[1], t) THEN o ELSE <<>>

Tick(step) ==
    /\ now' = now + step
    /\ current_key' = UnexpiredOpt(current_key, now')
    /\ last_rotation' = UnexpiredOpt(last_rotation, now')
    /\ key_store' = Unexpired(key_store, now')
    /\ sessions' = Unexpired(sessions, now')
    /\ user_sessions' = [u \in Users |->
                            IF user_sessions[u].members # {}
                               /\ Live(user_sessions[u], now')
                            THEN user_sessions[u] ELSE NoIndex]
    /\ last_op' = OpRec("tick", "", None, TRUE, "", {}, {})
    /\ UNCHANGED <<decode_responses, frames, scheduler_started, issued, revoked,
                   next_key_id, next_session_id, rbac_vars>>

(***************************************************************************)
(* Specifications of the token service.                                    *)
(***************************************************************************)
EmptyMap == [x \in {} |-> None]

AuthInit ==
    /\ decode_responses \in BOOLEAN
    /\ now = 0
    /\ current_key = <<>>
    /\ key_store = EmptyMap
    /\ last_rotation = <<>>
    /\ scheduler_started = FALSE
    /\ sessions = EmptyMap
    /\ user_sessions = [u \in Users |-> NoIndex]
    /\ issued = EmptyMap
    /\ revoked = {}
    /\ next_key_id = 1
    /\ next_session_id = 1
    /\ last_op = OpRec("init", "", None, TRUE, "", {}, {})
    /\ rotation = <<>>
    /\ calls = EmptyMap
    /\ mutations = EmptyMap

\* A dict key that is absent, or an optional argument left at None
Missing == "None"

\* context = {}
DefaultContext ==
    [user_tenant_id |-> Missing, resource_tenant_id |-> Missing,
     user_id |-> Missing, resource_owner_id |-> Missing,
     resource_shared_with |-> {}, shared_is_none |-> FALSE,
     is_api_request |-> FALSE, has_advanced_features |-> FALSE]

Request(resource_type, action, resource_id, context) ==
    [resource_type |-> resource_type, action |-> action,
     resource_id |-> resource_id, context |-> context]

\* What the last RBAC call was given and what came back: outcome is "ok",
\* "none" (None or False returned) or the exception raised; stale tells
\* whether a cached permission list for the user existed when it started.
RbacOpRec(op, user, role, outcome, request, result, stale) ==
    [op |-> op, user |-> user, role |-> role, outcome |-> outcome,
     request |-> request, result |-> result, stale |-> stale]

NoRequest == Request(Missing, Missing, Missing, DefaultContext)

\* No _get_user_permissions call in progress
NoResolution ==
    [phase |-> "idle", user |-> Missing, pending |-> <<>>, permissions |-> <<>>,
     processed_roles |-> {}, calls |-> 0]

RbacIdle ==
    /\ resolution = NoResolution
    /\ roles = EmptyMap
    /\ user_roles = EmptyMap
    /\ perm_cache = EmptyMap
    /\ rbac_op = RbacOpRec("none", Missing, Missing, "ok", NoRequest, FALSE, FALSE)

Init == AuthInit /\ RbacIdle

Audiences == {{}, {"web"}}

\* Key rotation, retention and verification over two days.
Next ==
    \/ next_key_id <= MaxKeys /\ Initialize
    \/ next_key_id <= MaxKeys /\ SchedulerRotate
    \/ \E a \in Audiences :
          next_session_id <= MaxSessions /\ CreateTokens("u1", a)
    \/ \E t \in Presented : VerifyTokenOp(t)
    \/ \E s \in 1..(next_session_id - 1) : RevokeSession(s)
    \/ RevokeAllUserSessions("u1")
    \/ GetJwksOp
    \/ now + TickStep <= MaxTime /\ ~RotationPending /\ Tick(TickStep)

Spec == Init /\ [][Next]_vars

\* How many sessions each user may be issued in SpecCap.
IssuedTo(u) == Cardinality({s \in DOMAIN issued : issued[s].access.payload.sub = u})
\* "u1" is the user whose cap is exercised; any other user is issued at most
\* the first MaxOtherSessions sessions.
MayIssue(u) ==
    IF u = "u1" THEN IssuedTo(u) < MaxCapSessions
    ELSE next_session_id <= MaxOtherSessions

\* Session caps: many sessions of few users within one session lifetime.
NextCap ==
    \/ next_key_id <= 1 /\ Initialize
    \/ \E u \in Users :
          MayIssue(u) /\ CreateTokens(u, {})
    \/ \E s \in 1..(next_session_id - 1) : RevokeSession(s)
    \/ \E u \in Users : RevokeAllUserSessions(u)
    \/ /\ now + CapTickStep <= MaxCapTime
       /\ next_session_id <= MaxEarlySessions + 1
       /\ Tick(CapTickStep)

SpecCap == Init /\ [][NextCap]_vars

(***************************************************************************)
(* Claims about the token service.                                         *)
(***************************************************************************)
Accepted(token) == VerifyToken(token).payload # <<>>
CreatedAt(s) == <<issued[s].access.payload.iat, s>>
JustIssued == last_op.op = "create_tokens" /\ last_op.ok

\* C1: right after create_tokens returns (key retained, session stored, nothing
\* expired) verify_token accepts the access token and the refresh token.
C1_IssuedTokensVerify ==
    JustIssued =>
        /\ Accepted(issued[last_op.sid].access)
        /\ Accepted(issued[last_op.sid].refresh)

C5_SessionCap ==
    \A u \in Users :
        Cardinality(LiveSessionsOf(sessions, u)) <= max_sessions_per_user

\* C6: a create_tokens for a user who held exactly max_sessions_per_user live
\* sessions removes exactly one of them, the one created first, and leaves the
\* other four and the new session live.
C6_SixthEvictsOldest ==
    (JustIssued /\ Cardinality(last_op.before) = max_sessions_per_user) =>
        LET live == LiveSessionsOf(sessions, last_op.user)
            gone == last_op.before \ live
        IN /\ Cardinality(gone) = 1
           /\ \A e \in gone, k \in last_op.before \ gone :
                 Earlier(CreatedAt(e), CreatedAt(k))
           /\ last_op.sid \in live

\* C9: with a newer key current, a token of an older key whose record is still
\* retained, that is unexpired and whose session is live, is accepted.
C9_PreviousKeyTokensAccepted ==
    \A t \in IssuedTokens :
        ( /\ current_key # <<>>
          /\ t.kid # current_key[1].data.key_id
          /\ t.kid \in DOMAIN key_store
          /\ t.payload.exp > now
          /\ t.payload.session_id \in DOMAIN sessions )
        => Accepted(t)

\* C10: a token whose header names a key that was generated and whose stored
\* record has expired gets the invalid-token outcome on the unknown-key path.
KeyExpired(kid) == kid # None /\ kid < next_key_id /\ kid \notin DOMAIN key_store

C10_ExpiredKeyUnknown ==
    \A t \in VerifyInputs :
        KeyExpired(t.kid) =>
            VerifyToken(t) = [payload |-> <<>>, log |-> "unknown_key"]

C10_Witness ==
    /\ last_op.op = "verify_token"
    /\ last_op.log = "unknown_key"
    /\ current_key # <<>>
    /\ \E t \in Presented : KeyExpired(t.kid) /\ t.payload.exp > now

(***************************************************************************)
(* RBACService: permissions, roles and the system catalog.                 *)
(***************************************************************************)
ResourceTypes == {"user", "tenant", "query", "file", "dashboard", "api_key",
                  "billing", "analytics", "system"}
Actions == {"create", "read", "update", "delete", "execute", "manage", "admin"}

\* Permission(resource_type, action, effect, conditions, resource_ids);
\* conditions is the dict as its set of (key, value) items, resource_ids the
\* list as its set of members (None and [] are both empty).
Permission(resource_type, action, effect, conditions, resource_ids) ==
    [resource_type |-> resource_type, action |-> action, effect |-> effect,
     conditions |-> conditions, resource_ids |-> resource_ids]

Allow(resource_type, action) == Permission(resource_type, action, "allow", {}, {})
AllowIf(resource_type, action, key) ==
    Permission(resource_type, action, "allow", {<<key, TRUE>>}, {})

Role(name, permissions, inherits_from, is_system_role) ==
    [name |-> name, permissions |-> permissions,
     inherits_from |-> inherits_from, is_system_role |-> is_system_role]

\* _define_system_roles
SystemRoles ==
    [super_admin |->
        Role("super_admin",
             <<Allow("system", "admin"), Allow("tenant", "manage"),
               Allow("user", "manage"), Allow("billing", "manage"),
               Allow("analytics", "read")>>, <<>>, TRUE),
     tenant_admin |->
        Role("tenant_admin",
             <<AllowIf("user", "manage", "same_tenant"),
               AllowIf("query", "manage", "same_tenant"),
               AllowIf("file", "manage", "same_tenant"),
               AllowIf("dashboard", "manage", "same_tenant"),
               AllowIf("api_key", "manage", "same_tenant"),
               AllowIf("billing", "read", "same_tenant"),
               AllowIf("analytics", "read", "same_tenant")>>, <<>>, TRUE),
     user |->
        Role("user",
             <<AllowIf("query", "create", "same_tenant"),
               AllowIf("query", "read", "owner_or_shared"),
               AllowIf("query", "update", "owner"),
               AllowIf("query", "delete", "owner"),
               AllowIf("file", "create", "same_tenant"),
               AllowIf("file", "read", "owner_or_shared"),
               AllowIf("file", "update", "owner"),
               AllowIf("file", "delete", "owner"),
               AllowIf("dashboard", "create", "same_tenant"),
               AllowIf("dashboard", "read", "owner_or_shared"),
               AllowIf("dashboard", "update", "owner")>>, <<>>, TRUE),
     viewer |->
        Role("viewer",
             <<AllowIf("query", "read", "shared"),
               AllowIf("file", "read", "shared"),
               AllowIf("dashboard", "read", "shared")>>, <<>>, TRUE),
     analyst |->
        Role("analyst",
             <<AllowIf("query", "execute", "advanced_queries"),
               AllowIf("analytics", "read", "same_tenant")>>, <<"user">>, TRUE),
     api_user |->
        Role("api_user",
             <<AllowIf("query", "create", "api_access"),
               AllowIf("query", "read", "api_access"),
               AllowIf("file", "create", "api_access"),
               AllowIf("file", "read", "api_access")>>, <<>>, TRUE)]

SystemRoleNames == DOMAIN SystemRoles

(***************************************************************************)
(* Permission evaluation.  A context is the dict with every key the        *)
(* predicates read; Missing stands for a key that is absent (get gives     *)
(* None), shared_is_none for resource_shared_with present with value None. *)
(***************************************************************************)
ConditionHolds_Ignored(key, value, context) == "true"

\* _evaluate_conditions: "true", "false", or "raise" (the membership test on
\* a resource_shared_with that is None raises TypeError).
ConditionHolds(key, value, context) ==
    IF key = "same_tenant"
    THEN IF value /\ context.user_tenant_id # context.resource_tenant_id
         THEN "false" ELSE "true"
    ELSE IF key = "owner"
    THEN IF value /\ context.user_id # context.resource_owner_id
         THEN "false" ELSE "true"
    ELSE IF key = "owner_or_shared"
    THEN IF value /\ context.user_id # context.resource_owner_id
         THEN IF context.shared_is_none THEN "raise"
              ELSE IF context.user_id \notin context.resource_shared_with
                   THEN "false" ELSE "true"
         ELSE "true"
    ELSE IF key = "shared"
    THEN IF value
         THEN IF context.shared_is_none THEN "raise"
              ELSE IF context.user_id \notin context.resource_shared_with
                   THEN "false" ELSE "true"
         ELSE "true"
    ELSE IF key = "api_access"
    THEN IF value /\ ~context.is_api_request THEN "false" ELSE "true"
    ELSE IF key = "advanced_queries"
    THEN IF value /\ ~context.has_advanced_features THEN "false" ELSE "true"
    ELSE "true"

\* The loop over conditions.items(): the first item that fails or raises
\* decides; the roles of this model carry at most one item per permission.
EvaluateConditions(conditions, context) ==
    IF conditions = {} THEN "true"
    ELSE LET outcomes == {ConditionHolds(c[1], c[2], context) : c \in conditions}
         IN IF outcomes = {"true"} THEN "true"
            ELSE IF "raise" \in outcomes /\ "false" \notin outcomes THEN "raise"
            ELSE IF "false" \in outcomes /\ "raise" \notin outcomes THEN "false"
            ELSE CHOOSE o \in outcomes : o # "true"

\* _permission_matches
PermissionMatches(permission, resource_type, action, resource_id, context) ==
    IF permission.resource_type # resource_type THEN "false"
    ELSE IF permission.action # action /\ permission.action # "admin" THEN "false"
    ELSE IF /\ permission.resource_ids # {}
            /\ resource_id # Missing
            /\ resource_id \notin permission.resource_ids
         THEN "false"
    ELSE EvaluateConditions(permission.conditions, context)

SelectEffect(permissions, effect) ==
    SelectSeq(permissions, LAMBDA p : p.effect = effect)

\* One `for permission in ...: if matches: return` loop: "match", "none",
\* or "raise" when a match test raises before any match.
RECURSIVE FirstMatch(_, _, _, _, _)
FirstMatch(permissions, resource_type, action, resource_id, context) ==
    IF permissions = <<>> THEN "none"
    ELSE LET m == PermissionMatches(Head(permissions), resource_type, action,
                                    resource_id, context)
         IN IF m = "raise" THEN "raise"
            ELSE IF m = "true" THEN "match"
            ELSE FirstMatch(Tail(permissions), resource_type, action,
                            resource_id, context)

\* _evaluate_permissions: every deny is tried before any allow; an exception
\* leaves the function ("raise") and is turned into False by the caller.
EvaluatePermissions_AllowFirst(permissions, resource_type, action, resource_id, context) ==
    LET allowed == FirstMatch(SelectEffect(permissions, "allow"), resource_type,
                              action, resource_id, context)
        denied == FirstMatch(SelectEffect(permissions, "deny"), resource_type,
                             action, resource_id, context)
    IN IF allowed = "raise" THEN "raise"
       ELSE IF allowed = "match" THEN "true"
       ELSE IF denied = "raise" THEN "raise"
       ELSE "false"

EvaluatePermissions_DefaultAllow(permissions, resource_type, action, resource_id, context) ==
    LET denied == FirstMatch(SelectEffect(permissions, "deny"), resource_type,
                             action, resource_id, context)
    IN IF denied = "raise" THEN "raise"
       ELSE IF denied = "match" THEN "false"
       ELSE "true"

EvaluatePermissions(permissions, resource_type, action, resource_id, context) ==
    LET denied == FirstMatch(SelectEffect(permissions, "deny"), resource_type,
                             action, resource_id, context)
        allowed == FirstMatch(SelectEffect(permissions, "allow"), resource_type,
                              action, resource_id, context)
    IN IF denied = "raise" THEN "raise"
       ELSE IF denied = "match" THEN "false"
       ELSE IF allowed = "raise" THEN "raise"
       ELSE IF allowed = "match" THEN "true"
       ELSE "false"

(***************************************************************************)
(* Role resolution and the permission cache.                               *)
(***************************************************************************)
\* get_role against a role store
GetRole(store, role_name) ==
    IF role_name \in DOMAIN store THEN <<store[role_name]>> ELSE <<>>

\* _collect_role_permissions, the recursion unrolled over the list of names
\* still to visit (depth first, in the order the code recurses).
RECURSIVE CollectRolePermissions(_, _, _, _)
CollectRolePermissions(store, pending, permissions, processed_roles) ==
    IF pending = <<>> THEN permissions
    ELSE LET role_name == Head(pending)
             role == GetRole(store, role_name)
         IN IF role_name \in processed_roles
            THEN CollectRolePermissions(store, Tail(pending), permissions,
                                        processed_roles)
            ELSE IF role = <<>>
            THEN CollectRolePermissions(store, Tail(pending), permissions,
                                        processed_roles \cup {role_name})
            ELSE CollectRolePermissions(store,
                                        role[1].inherits_from \o Tail(pending),
                                        permissions \o role[1].permissions,
                                        processed_roles \cup {role_name})

\* _get_user_roles
GetUserRoles(assignments, user_id) ==
    IF user_id \in DOMAIN assignments THEN assignments[user_id] ELSE <<>>

AssignedNames(assignments, user_id) ==
    [i \in 1..Len(GetUserRoles(assignments, user_id)) |->
        GetUserRoles(assignments, user_id)[i].role]

\* the uncached branch of _get_user_permissions
ResolvePermissions(store, assignments, user_id) ==
    CollectRolePermissions(store, AssignedNames(assignments, user_id), <<>>, {})

\* _get_user_permissions: the cached list when the key is there, otherwise
\* the resolved one
GetUserPermissions(store, assignments, cache, user_id) ==
    IF user_id \in DOMAIN cache THEN cache[user_id]
    ELSE ResolvePermissions(store, assignments, user_id)

\* check_permission as a function of the stores: any exception gives False
CheckPermissionResult(store, assignments, cache, user_id, request) ==
    EvaluatePermissions(GetUserPermissions(store, assignments, cache, user_id),
                        request.resource_type, request.action,
                        request.resource_id, request.context) = "true"

\* _get_users_with_role: splitting a bytes key on ":" raises TypeError, which
\* the function turns into an empty list
GetUsersWithRole(assignments, role_name) ==
    IF decode_responses
    THEN {u \in DOMAIN assignments :
            \E i \in 1..Len(assignments[u]) : assignments[u][i].role = role_name}
    ELSE {}

(***************************************************************************)
(* RBACService operations.                                                 *)
(***************************************************************************)
\* initialize / _create_system_roles: every catalog role is written under
\* its own key
RbacInitialize ==
    /\ roles' = [n \in DOMAIN roles \cup SystemRoleNames |->
                    IF n \in SystemRoleNames THEN SystemRoles[n] ELSE roles[n]]
    /\ rbac_op' = RbacOpRec("initialize", Missing, Missing, "ok", NoRequest,
                            FALSE, FALSE)
    /\ UNCHANGED <<user_roles, perm_cache, decode_responses, frames, auth_vars,
                 resolution>>

CreateRole(name, permissions, inherits_from) ==
    /\ IF GetRole(roles, name) # <<>>
       THEN /\ rbac_op' = RbacOpRec("create_role", Missing, Missing, "ValueError",
                                    NoRequest, FALSE, FALSE)
            /\ UNCHANGED roles
       ELSE /\ roles' = Put(roles, name,
                            Role(name, permissions, inherits_from, FALSE))
            /\ rbac_op' = RbacOpRec("create_role", Missing, Missing, "ok",
                                    NoRequest, FALSE, FALSE)
    /\ UNCHANGED <<user_roles, perm_cache, decode_responses, frames, auth_vars,
                 resolution>>

\* setattr(role, field, value) for the fields of Role the model keeps
SetAttr(role, field, value) ==
    IF field = "name" THEN [role EXCEPT !.name = value]
    ELSE IF field = "permissions" THEN [role EXCEPT !.permissions = value]
    ELSE IF field = "inherits_from" THEN [role EXCEPT !.inherits_from = value]
    ELSE IF field = "is_system_role" THEN [role EXCEPT !.is_system_role = value]
    ELSE role

\* update_role(role_name, field=value): the updated object is stored under
\* the key of its (possibly new) name; caches are invalidated for the users
\* holding role_name.
UpdateRole(role_name, field, value) ==
    LET role == GetRole(roles, role_name)
    IN /\ IF role = <<>>
          THEN /\ rbac_op' = RbacOpRec("update_role", Missing, Missing, "none",
                                       NoRequest, FALSE, FALSE)
               /\ UNCHANGED <<roles, perm_cache>>
          ELSE IF role[1].is_system_role
          THEN /\ rbac_op' = RbacOpRec("update_role", Missing, Missing,
                                       "ValueError", NoRequest, FALSE, FALSE)
               /\ UNCHANGED <<roles, perm_cache>>
          ELSE LET updated == SetAttr(role[1], field, value)
               IN /\ roles' = Put(roles, updated.name, updated)
                  /\ perm_cache' = Drop(perm_cache,
                                        GetUsersWithRole(user_roles, role_name))
                  /\ rbac_op' = RbacOpRec("update_role", Missing, Missing,
                                          "ok", NoRequest, FALSE, FALSE)
       /\ UNCHANGED <<user_roles, decode_responses, frames, auth_vars,
                 resolution>>

DeleteRole(role_name) ==
    LET role == GetRole(roles, role_name)
    IN /\ IF role = <<>>
          THEN /\ rbac_op' = RbacOpRec("delete_role", Missing, Missing, "none",
                                       NoRequest, FALSE, FALSE)
               /\ UNCHANGED roles
          ELSE IF role[1].is_system_role
                  \/ GetUsersWithRole(user_roles, role_name) # {}
          THEN /\ rbac_op' = RbacOpRec("delete_role", Missing, Missing,
                                       "ValueError", NoRequest, FALSE, FALSE)
               /\ UNCHANGED roles
          ELSE /\ roles' = Drop(roles, {role_name})
               /\ rbac_op' = RbacOpRec("delete_role", Missing, Missing, "ok",
                                       NoRequest, FALSE, FALSE)
       /\ UNCHANGED <<user_roles, perm_cache, decode_responses, frames, auth_vars,
                 resolution>>

\* _invalidate_user_cache
InvalidateUserCache_Skipped(cache, user_id) == cache

InvalidateUserCache(cache, user_id) == Drop(cache, {user_id})

Assignment(role_name, tenant_id) == [role |-> role_name, tenant_id |-> tenant_id]

AssignRoleToUser(user_id, role_name, tenant_id) ==
    /\ IF GetRole(roles, role_name) = <<>>
       THEN /\ rbac_op' = RbacOpRec("assign_role_to_user", user_id, role_name,
                                    "ValueError", NoRequest, FALSE,
                                    user_id \in DOMAIN perm_cache)
            /\ UNCHANGED <<user_roles, perm_cache>>
       ELSE /\ user_roles' = Put(user_roles, user_id,
                                 Append(GetUserRoles(user_roles, user_id),
                                        Assignment(role_name, tenant_id)))
            /\ perm_cache' = InvalidateUserCache(perm_cache, user_id)
            /\ rbac_op' = RbacOpRec("assign_role_to_user", user_id, role_name,
                                    "ok", NoRequest, FALSE,
                                    user_id \in DOMAIN perm_cache)
    /\ UNCHANGED <<roles, decode_responses, frames, auth_vars,
                 resolution>>

RevokeRoleFromUser(user_id, role_name, tenant_id) ==
    /\ user_roles' = Put(user_roles, user_id,
                         SelectSeq(GetUserRoles(user_roles, user_id),
                                   LAMBDA r : ~(r.role = role_name
                                                /\ r.tenant_id = tenant_id)))
    /\ perm_cache' = InvalidateUserCache(perm_cache, user_id)
    /\ rbac_op' = RbacOpRec("revoke_role_from_user", user_id, Missing, "ok",
                            NoRequest, FALSE, FALSE)
    /\ UNCHANGED <<roles, decode_responses, frames, auth_vars,
                 resolution>>

\* check_permission: a cache miss resolves the roles and stores the list
CheckPermission(user_id, request) ==
    /\ perm_cache' = Put(perm_cache, user_id,
                         GetUserPermissions(roles, user_roles, perm_cache, user_id))
    /\ rbac_op' = RbacOpRec("check_permission", user_id, Missing, "ok", request,
                            CheckPermissionResult(roles, user_roles, perm_cache,
                                                  user_id, request),
                            user_id \in DOMAIN perm_cache)
    /\ UNCHANGED <<roles, user_roles, decode_responses, frames, auth_vars,
                 resolution>>

\* The setex TTL (cache_ttl) of a cached list runs out
CacheExpire(user_id) ==
    /\ user_id \in DOMAIN perm_cache
    /\ perm_cache' = Drop(perm_cache, {user_id})
    /\ rbac_op' = RbacOpRec("cache_expire", user_id, Missing, "ok", NoRequest,
                            FALSE, TRUE)
    /\ UNCHANGED <<roles, user_roles, decode_responses, frames, auth_vars,
                 resolution>>

(***************************************************************************)
(* The RBAC specification: role administration, assignments and checks by  *)
(* callers, with cache entries expiring in between.                        *)
(***************************************************************************)
CustomNames == {"role_a", "role_b"}
UpdatableNames == {"role_a", "viewer"}
AssignableNames == {"role_a", "role_b", "analyst", "tenant_admin"}
RbacUsers == {"u1"}
MaxAssignments == 2
MaxHeld == 1
HeldNames == {"role_a", "viewer"}

DenyQueryRead == Permission("query", "read", "deny", {}, {})
DenyDeleteR1 == Permission("query", "delete", "deny", {}, {"r1"})

\* The create_role calls administrators make: (name, permissions, inherits_from)
RoleInputs ==
    {<<"role_a", <<Allow("query", "read")>>, <<"role_b">> >>,
     <<"role_a", <<Allow("query", "admin"), DenyDeleteR1>>, <<>> >>,
     <<"role_b", <<DenyQueryRead>>, <<"role_a">> >>,
     <<"role_b", <<DenyQueryRead>>, <<>> >>}

TenantContexts ==
    {[DefaultContext EXCEPT !.user_tenant_id = a, !.resource_tenant_id = b] :
        a \in {Missing, "t1"}, b \in {Missing, "t1", "t2"}}

OwnerContexts ==
    {[DefaultContext EXCEPT !.user_id = "u1", !.resource_owner_id = o,
                            !.resource_shared_with = s] :
        o \in {"u1", "u2"}, s \in {{}, {"u1"}}}
    \cup {[DefaultContext EXCEPT !.user_id = "u1", !.resource_owner_id = o,
                                 !.shared_is_none = TRUE] : o \in {"u1", "u2"}}

FeatureContexts ==
    {[DefaultContext EXCEPT !.is_api_request = a, !.has_advanced_features = f] :
        a \in BOOLEAN, f \in BOOLEAN}

Contexts == TenantContexts \cup OwnerContexts \cup FeatureContexts

Requests ==
    {Request(rt, a, id, c) : rt \in {"query", "analytics"},
                             a \in {"read", "delete", "execute"},
                             id \in {Missing, "r1", "r2"}, c \in Contexts}

\* The requests callers of this specification make
SampleRequests ==
    {Request("query", "read", Missing, DefaultContext),
     Request("query", "delete", "r1",
             [DefaultContext EXCEPT !.user_id = "u1", !.resource_owner_id = "u1"]),
     Request("query", "read", "r2",
             [DefaultContext EXCEPT !.user_id = "u1", !.resource_owner_id = "u2",
                                    !.shared_is_none = TRUE])}

NextRBAC ==
    \/ RbacInitialize
    \/ \E r \in RoleInputs : CreateRole(r[1], r[2], r[3])
    \/ \E r \in UpdatableNames : UpdateRole(r, "permissions", <<DenyQueryRead>>)
    \/ \E u \in RbacUsers, r \in AssignableNames :
          /\ Len(GetUserRoles(user_roles, u)) < MaxAssignments
          /\ AssignRoleToUser(u, r, Missing)
    \/ \E u \in RbacUsers, r \in AssignableNames : RevokeRoleFromUser(u, r, Missing)
    \/ \E u \in RbacUsers, q \in SampleRequests : CheckPermission(u, q)
    \/ \E u \in RbacUsers : CacheExpire(u)

SpecRBAC == Init /\ [][NextRBAC]_vars

(***************************************************************************)
(* The role administration specification: the catalog is seeded, roles are *)
(* created, updated field by field and deleted, while users hold roles.    *)
(***************************************************************************)
NextRoles ==
    \/ RbacInitialize
    \/ \E r \in RoleInputs : CreateRole(r[1], r[2], r[3])
    \/ \E r \in UpdatableNames : UpdateRole(r, "name", "viewer")
    \/ \E r \in UpdatableNames : UpdateRole(r, "is_system_role", TRUE)
    \/ \E r \in UpdatableNames : UpdateRole(r, "permissions", <<DenyQueryRead>>)
    \/ \E r \in UpdatableNames \cup CustomNames : DeleteRole(r)
    \/ \E u \in RbacUsers, r \in HeldNames :
          /\ Len(GetUserRoles(user_roles, u)) < MaxHeld
          /\ AssignRoleToUser(u, r, Missing)
    \/ \E u \in RbacUsers, r \in HeldNames : RevokeRoleFromUser(u, r, Missing)

SpecRoles == Init /\ [][NextRoles]_vars

(***************************************************************************)
(* Properties of the RBAC service.                                         *)
(***************************************************************************)
\* The permission list check_permission evaluates for a user in this state
PermissionsOf(u) == GetUserPermissions(roles, user_roles, perm_cache, u)

Matches(p, q) ==
    PermissionMatches(p, q.resource_type, q.action, q.resource_id, q.context) = "true"

MatchingAt(u, q, effect) ==
    LET permissions == PermissionsOf(u)
    IN {i \in 1..Len(permissions) :
          permissions[i].effect = effect /\ Matches(permissions[i], q)}

Granted(u, q) == CheckPermissionResult(roles, user_roles, perm_cache, u, q)

\* The same over a permission list already in hand
MatchingIn(permissions, q, effect) ==
    {i \in 1..Len(permissions) :
        permissions[i].effect = effect /\ Matches(permissions[i], q)}

GrantedWith(permissions, q) ==
    EvaluatePermissions(permissions, q.resource_type, q.action, q.resource_id,
                        q.context) = "true"

\* C2: whenever a DENY permission of the user's permission list matches a
\* request, check_permission returns false for it, whatever ALLOW permissions
\* match as well and wherever in the list they stand.
C2_DenyOverrides ==
    \A u \in RbacUsers :
        LET permissions == PermissionsOf(u)
        IN \A q \in Requests :
              MatchingIn(permissions, q, "deny") # {}
                  => ~GrantedWith(permissions, q)

\* A check was refused although an ALLOW collected before the DENY matched.
C2_Witness ==
    /\ rbac_op.op = "check_permission"
    /\ ~rbac_op.result
    /\ \E i \in MatchingAt(rbac_op.user, rbac_op.request, "allow"),
          j \in MatchingAt(rbac_op.user, rbac_op.request, "deny") : i < j

\* C3: check_permission returns a boolean for every user and request, and
\* true only when some ALLOW permission of the list matches and no DENY does.
C3_DefaultDeny ==
    \A u \in RbacUsers :
        LET permissions == PermissionsOf(u)
        IN \A q \in Requests :
              LET granted == GrantedWith(permissions, q)
              IN /\ granted \in BOOLEAN
                 /\ granted => /\ MatchingIn(permissions, q, "allow") # {}
                               /\ MatchingIn(permissions, q, "deny") = {}

\* A check over a non-empty permission list none of which matched was refused.
C3_Witness ==
    /\ rbac_op.op = "check_permission"
    /\ ~rbac_op.result
    /\ PermissionsOf(rbac_op.user) # <<>>
    /\ MatchingAt(rbac_op.user, rbac_op.request, "allow") = {}
    /\ MatchingAt(rbac_op.user, rbac_op.request, "deny") = {}

\* C7: no step changes or removes the stored definition of a system role.
C7_SystemRolesImmutable ==
    [][\A n \in SystemRoleNames :
          GetRole(roles, n) = <<SystemRoles[n]>>
              => GetRole(roles', n) = <<SystemRoles[n]>>]_vars

\* The permissions of role r and of the roles it inherits
ClosureOf(r) == CollectRolePermissions(roles, <<r>>, <<>>, {})

C11_OneCurrentKey ==
    scheduler_started => Len(GetCurrentKey) = 1

\* The lines verify_token logs for what callers may present in this state
LogsOf(tokens) == {VerifyToken(t).log : t \in tokens}

FailureModes ==
    {"missing_key_id", "unknown_key", "invalid_signature", "expired",
     "immature", "invalid_issuer", "invalid_session"}

\* C12: whatever makes verify_token refuse a token, the caller gets the same
\* return value, None; the reason is only in the log.
C12_FailuresAlike ==
    /\ \A t \in VerifyInputs :
          VerifyToken(t).log # "ok" => VerifyToken(t).payload = <<>>
    /\ (last_op.op = "verify_token" /\ last_op.log # "ok") => ~last_op.ok

\* A refused verification in a state where every failure mode has a token
\* that runs into it.
C12_Witness ==
    /\ last_op.op = "verify_token"
    /\ ~last_op.ok
    /\ FailureModes \subseteq LogsOf(VerifyInputs)

\* C13: a create_tokens call that finds no current signing key fails, issues
\* nothing, and leaves the session store and the active-session indexes as
\* they were.
C13_NoKeyNoSession ==
    [][((\E u \in Users, a \in Audiences : CreateTokens(u, a))
            /\ GetCurrentKey = <<>>)
        => /\ ~last_op'.ok
           /\ last_op'.op = "create_tokens"
           /\ sessions' = sessions
           /\ user_sessions' = user_sessions
           /\ issued' = issued]_vars

\* create_tokens was refused for want of a signing key.
C13_Witness ==
    /\ last_op.op = "create_tokens"
    /\ ~last_op.ok
    /\ last_op.log = "No signing key available"
    /\ GetCurrentKey = <<>>

(***************************************************************************)
(* Permission resolution call by call: get_user_permissions as the         *)
(* sequence of _collect_role_permissions invocations it makes, over role   *)
(* graphs with cycles, shared permissions and names that are not stored.   *)
(***************************************************************************)
MaxCalls == 10

AlreadyProcessed_Never(role_name, processed_roles) == FALSE

\* `if role_name in processed_roles: return`
AlreadyProcessed(role_name, processed_roles) == role_name \in processed_roles

\* _get_user_permissions is entered: a cached list is returned as it is,
\* otherwise the loop over the user's assignments begins.
StartResolve(user_id) ==
    /\ resolution.phase = "idle"
    /\ resolution' =
          IF user_id \in DOMAIN perm_cache
          THEN [NoResolution EXCEPT !.phase = "done", !.user = user_id,
                                    !.permissions = perm_cache[user_id]]
          ELSE [phase |-> "collecting", user |-> user_id,
                pending |-> AssignedNames(user_roles, user_id),
                permissions |-> <<>>, processed_roles |-> {}, calls |-> 0]
    /\ UNCHANGED <<roles, user_roles, perm_cache, rbac_op, decode_responses, frames,
                   auth_vars>>

\* One invocation of _collect_role_permissions, for the name next in turn
CollectStep ==
    /\ resolution.phase = "collecting"
    /\ resolution.pending # <<>>
    /\ resolution.calls < MaxCalls
    /\ LET role_name == Head(resolution.pending)
           role == GetRole(roles, role_name)
       IN resolution' =
             IF AlreadyProcessed(role_name, resolution.processed_roles)
             THEN [resolution EXCEPT !.pending = Tail(@), !.calls = @ + 1]
             ELSE IF role = <<>>
             THEN [resolution EXCEPT !.pending = Tail(@), !.calls = @ + 1,
                                     !.processed_roles = @ \cup {role_name}]
             ELSE [resolution EXCEPT
                      !.pending = role[1].inherits_from \o Tail(@),
                      !.permissions = @ \o role[1].permissions,
                      !.processed_roles = @ \cup {role_name},
                      !.calls = @ + 1]
    /\ UNCHANGED <<roles, user_roles, perm_cache, rbac_op, decode_responses, frames,
                   auth_vars>>

\* Every assignment has been walked: the list is cached with setex and returned
FinishResolve ==
    /\ resolution.phase = "collecting"
    /\ resolution.pending = <<>>
    /\ perm_cache' = Put(perm_cache, resolution.user, resolution.permissions)
    /\ resolution' = [resolution EXCEPT !.phase = "done"]
    /\ rbac_op' = RbacOpRec("get_user_permissions", resolution.user, Missing,
                            "ok", NoRequest, FALSE, FALSE)
    /\ UNCHANGED <<roles, user_roles, decode_responses, frames, auth_vars>>

\* The caller has the list
ReturnResolve ==
    /\ resolution.phase = "done"
    /\ resolution' = NoResolution
    /\ UNCHANGED <<roles, user_roles, perm_cache, rbac_op, decode_responses, frames,
                   auth_vars>>

GraphNames == {"role_a", "role_b", "role_c"}

GraphPermissions ==
    [role_a |-> <<Allow("query", "read")>>,
     role_b |-> <<DenyQueryRead>>,
     role_c |-> <<Allow("query", "delete"), Allow("query", "read")>>]

\* inherits_from lists: none, one stored or missing role (role_d is never
\* stored), or two
InheritChoices ==
    {<<>>, <<"role_a">>, <<"role_b">>, <<"role_c">>, <<"role_d">>,
     <<"role_a", "role_b">>}

RoleGraphs ==
    UNION {{[n \in S |-> Role(n, GraphPermissions[n], f[n], FALSE)] :
               f \in [S -> InheritChoices]} : S \in SUBSET GraphNames}

AssignmentLists ==
    UNION {[1..k -> {Assignment(n, Missing) : n \in GraphNames}] :
              k \in 0..MaxAssignments}

InitResolve ==
    /\ AuthInit
    /\ resolution = NoResolution
    /\ roles \in RoleGraphs
    /\ \E l \in AssignmentLists : user_roles = [u \in RbacUsers |-> l]
    /\ perm_cache = EmptyMap
    /\ rbac_op = RbacOpRec("none", Missing, Missing, "ok", NoRequest, FALSE, FALSE)

NextResolve ==
    \/ \E u \in RbacUsers : StartResolve(u)
    \/ CollectStep
    \/ FinishResolve
    \/ ReturnResolve

SpecResolve == InitResolve /\ [][NextResolve]_vars

RECURSIVE SumInherits(_, _)
SumInherits(store, names) ==
    IF names = {} THEN 0
    ELSE LET n == CHOOSE x \in names : TRUE
         IN Len(store[n].inherits_from) + SumInherits(store, names \ {n})

\* Each assignment costs one invocation and each stored role is expanded at
\* most once, adding one invocation per name it inherits from.
CallBound(u) ==
    Len(AssignedNames(user_roles, u)) + SumInherits(roles, DOMAIN roles)

\* C14: a resolution in progress has made, and still has to make, no more
\* invocations than the assignments and the stored inherits_from lists
\* together allow, whatever cycles and missing names the graph holds, and
\* its next invocation is always possible: it runs to its end.
C14_ResolutionTerminates ==
    resolution.phase = "collecting" =>
        /\ resolution.calls + Len(resolution.pending) <= CallBound(resolution.user)
        /\ CallBound(resolution.user) < MaxCalls

\* A resolution has finished over a graph in which an assigned role lies on a
\* cycle of length three and some role names a missing one.
C14_Witness ==
    /\ resolution.phase = "done"
    /\ rbac_op.op = "get_user_permissions"
    /\ DOMAIN roles = GraphNames
    /\ roles["role_c"].inherits_from = <<"role_b">>
    /\ roles["role_b"].inherits_from = <<"role_a">>
    /\ roles["role_a"].inherits_from = <<"role_c">>
    /\ AssignedNames(user_roles, resolution.user) = <<"role_c", "role_c">>

\* The role names reachable from a set of names through inherits_from
RECURSIVE ReachableFrom(_, _)
ReachableFrom(store, names) ==
    LET further == names \cup UNION {Range(store[n].inherits_from) :
                                        n \in names \cap DOMAIN store}
    IN IF further = names THEN names ELSE ReachableFrom(store, further)

ReachableRoles(u) ==
    ReachableFrom(roles, Range(AssignedNames(user_roles, u))) \cap DOMAIN roles

\* The list a finished get_user_permissions hands back holds every permission
\* of every reachable role and nothing else.
ReturnsUnion ==
    resolution.phase = "done" =>
        Range(resolution.permissions) =
            UNION {Range(roles[n].permissions) : n \in ReachableRoles(resolution.user)}

\* C15: the list get_user_permissions returns is the union of the permissions
\* of the roles reachable from the user's assignments, each permission once.
C15_DeduplicatedUnion ==
    /\ ReturnsUnion
    /\ resolution.phase = "done" =>
          Len(resolution.permissions) = Cardinality(Range(resolution.permissions))

(***************************************************************************)
(* Further properties of permission matching.                              *)
(***************************************************************************)
\* C16: a permission of a user's list that carries resource_ids matches a
\* request only when the request names a resource_id that is in the list.
C16_ResourceIdsRestrict ==
    \A u \in RbacUsers, q \in Requests :
        LET permissions == PermissionsOf(u)
        IN \A i \in 1..Len(permissions) :
              (permissions[i].resource_ids # {} /\ Matches(permissions[i], q))
                  => q.resource_id \in permissions[i].resource_ids

\* What each predicate asks of the context
PredicateHolds(key, context) ==
    IF key = "same_tenant"
    THEN context.user_tenant_id = context.resource_tenant_id
    ELSE IF key = "owner"
    THEN context.user_id = context.resource_owner_id
    ELSE IF key = "owner_or_shared"
    THEN \/ context.user_id = context.resource_owner_id
         \/ (~context.shared_is_none
                /\ context.user_id \in context.resource_shared_with)
    ELSE IF key = "shared"
    THEN ~context.shared_is_none
            /\ context.user_id \in context.resource_shared_with
    ELSE IF key = "api_access" THEN context.is_api_request
    ELSE context.has_advanced_features

\* The permission fits the request in everything but its conditions
FitsRequest(p, q) ==
    /\ p.resource_type = q.resource_type
    /\ p.action = q.action \/ p.action = "admin"
    /\ p.resource_ids # {} /\ q.resource_id # Missing
          => q.resource_id \in p.resource_ids

ManageRequests ==
    {Request("query", "manage", id, c) : id \in {Missing, "r1"},
                                         c \in TenantContexts}

DeleteRequests ==
    {Request("query", "delete", id, c) : id \in {Missing, "r2"},
                                         c \in OwnerContexts \cup TenantContexts}

Holds(u, names) == Range(AssignedNames(user_roles, u)) = names

\* C17: a permission with one condition of expected value true matches a
\* request it otherwise fits exactly when the predicate holds on the context;
\* so a user holding only tenant_admin is granted (query, manage) exactly when
\* the two tenant ids are equal, and a user holding only analyst (which brings
\* user's delete-if-owner) is granted (query, delete) exactly when user_id
\* equals resource_owner_id.
C17_ConditionsDecide ==
    \A u \in RbacUsers :
        LET permissions == PermissionsOf(u)
        IN /\ \A q \in Requests, i \in 1..Len(permissions) :
                 \A c \in permissions[i].conditions :
                    (FitsRequest(permissions[i], q) /\ c[2]
                        /\ permissions[i].conditions = {c})
                       => (Matches(permissions[i], q)
                              <=> PredicateHolds(c[1], q.context))
           /\ (Holds(u, {"tenant_admin"}) /\ u \notin DOMAIN perm_cache
                  /\ GetRole(roles, "tenant_admin") = <<SystemRoles["tenant_admin"]>>)
                 => \A q \in ManageRequests :
                       Granted(u, q) <=> (q.context.user_tenant_id
                                              = q.context.resource_tenant_id)
           /\ (Holds(u, {"analyst"}) /\ u \notin DOMAIN perm_cache)
                 => \A q \in DeleteRequests :
                       Granted(u, q) <=> (q.context.user_id
                                              = q.context.resource_owner_id)

\* A check by a user holding analyst was granted through user's
\* delete-if-owner permission, the caller being the owner.
C17_Witness ==
    /\ rbac_op.op = "check_permission"
    /\ rbac_op.result
    /\ rbac_op.request.action = "delete"
    /\ rbac_op.request.context.user_id = rbac_op.request.context.resource_owner_id
    /\ Holds(rbac_op.user, {"analyst"})
    /\ \A i \in MatchingAt(rbac_op.user, rbac_op.request, "allow") :
          PermissionsOf(rbac_op.user)[i].conditions = {<<"owner", TRUE>>}

(***************************************************************************)
(* Further properties of role administration.                              *)
(***************************************************************************)
\* The users whose stored assignment list names the role
HeldBy(r) == {u \in DOMAIN user_roles : r \in Range(AssignedNames(user_roles, u))}

\* C18: a delete_role call for a stored role that some user's assignment list
\* names fails with a policy violation and leaves the role stored.
C18_InUseRoleKept ==
    [][\A r \in UpdatableNames \cup CustomNames :
          (DeleteRole(r) /\ GetRole(roles, r) # <<>> /\ HeldBy(r) # {})
              => (roles' = roles /\ rbac_op'.outcome = "ValueError")]_vars

(***************************************************************************)
(* Store errors during a resolution: a Redis read that raises inside       *)
(* _get_user_roles or get_role ends in that function's except branch.      *)
(***************************************************************************)
\* _get_user_roles raised: its except branch returns [], and the resolution
\* goes on with no assignments
StartResolveReadFails(user_id) ==
    /\ resolution.phase = "idle"
    /\ user_id \notin DOMAIN perm_cache
    /\ resolution' = [phase |-> "collecting", user |-> user_id, pending |-> <<>>,
                      permissions |-> <<>>, processed_roles |-> {}, calls |-> 0]
    /\ UNCHANGED <<roles, user_roles, perm_cache, rbac_op, decode_responses, frames,
                   auth_vars>>

\* get_role raised: its except branch returns None, and the invocation of
\* _collect_role_permissions returns as for a role that is not stored
CollectStepReadFails ==
    /\ resolution.phase = "collecting"
    /\ resolution.pending # <<>>
    /\ resolution.calls < MaxCalls
    /\ ~AlreadyProcessed(Head(resolution.pending), resolution.processed_roles)
    /\ resolution' = [resolution EXCEPT
                         !.pending = Tail(@), !.calls = @ + 1,
                         !.processed_roles = @ \cup {Head(resolution.pending)}]
    /\ UNCHANGED <<roles, user_roles, perm_cache, rbac_op, decode_responses, frames,
                   auth_vars>>

NextFaults ==
    \/ NextResolve
    \/ \E u \in RbacUsers : StartResolveReadFails(u)
    \/ CollectStepReadFails

SpecFaults == InitResolve /\ [][NextFaults]_vars

\* C19: a read of the assignments or of a role that failed during a
\* resolution never leaves a returned or cached permission list other than
\* the one the stored roles and assignments define.
C19_FailedReadNotMasked ==
    /\ \A u \in DOMAIN perm_cache :
          perm_cache[u] = ResolvePermissions(roles, user_roles, u)
    /\ resolution.phase = "done" =>
          resolution.permissions
              = ResolvePermissions(roles, user_roles, resolution.user)

(***************************************************************************)
(* Further properties of session revocation.                               *)
(***************************************************************************)
SessionState == [sess |-> sessions, idx |-> user_sessions]

Indexed(idx, s) == \E u \in Users : s \in idx[u].members

\* C20: revoke_session(s) leaves s in neither the session store nor an
\* active-session index; revoke_all_user_sessions(u) leaves no session of u
\* stored and u's index empty; and doing either a second time changes nothing.
C20_RevocationIdempotent ==
    [][/\ \A s \in 1..(next_session_id - 1) :
             RevokeSession(s)
                 => /\ s \notin DOMAIN sessions'
                    /\ ~Indexed(user_sessions', s)
                    /\ RevokeSessionIn(RevokeSessionIn(SessionState, s), s)
                          = RevokeSessionIn(SessionState, s)
       /\ \A u \in Users :
             RevokeAllUserSessions(u)
                 => /\ LiveSessionsOf(sessions', u) = {}
                    /\ user_sessions'[u].members = {}
                    /\ RevokeAllIn(RevokeAllIn(SessionState, u), u)
                          = RevokeAllIn(SessionState, u)]_vars

\* C21: get_jwks returns exactly one entry per stored, unexpired key (the
\* current key included), its kid being that key's key_id, and no entry for a
\* key whose record has expired.
KidCount(jwks, kid) == Cardinality({i \in 1..Len(jwks) : jwks[i].kid = kid})

KeyRecord(key_data) ==
    [data |-> key_data, expires |-> key_data.created_at + key_retention_period]

\* Key generation and the first write, setex("jwt:current_key", ...).
StoreCurrentKeyStep(caller) ==
    LET key_data == KeyData(next_key_id, now)
    IN /\ rotation = <<>>
       /\ current_key' = <<KeyRecord(key_data)>>
       /\ next_key_id' = next_key_id + 1
       /\ rotation' = <<[pc |-> "store_key", key_data |-> key_data,
                         caller |-> caller]>>
       /\ UNCHANGED <<decode_responses, now, key_store, last_rotation,
                      scheduler_started, sessions, user_sessions, issued,
                      revoked, next_session_id, last_op, rbac_vars, calls,
                      mutations>>

\* initialize finds no current key and starts generating one.
InitializeBegin == GetCurrentKey = <<>> /\ StoreCurrentKeyStep("initialize")

\* The scheduler finds a rotation due and starts generating a key.
SchedulerRotateBegin ==
    scheduler_started /\ RotationDue /\ StoreCurrentKeyStep("rotate")

\* The second write, setex(f"jwt:key:{key_id}", ...).
StoreKeyStep ==
    /\ rotation # <<>>
    /\ rotation[1].pc = "store_key"
    /\ key_store' = Put(key_store, rotation[1].key_data.key_id,
                        KeyRecord(rotation[1].key_data))
    /\ rotation' = <<[rotation[1] EXCEPT !.pc = "store_last_rotation"]>>
    /\ UNCHANGED <<decode_responses, now, current_key, last_rotation,
                   scheduler_started, sessions, user_sessions, issued, revoked,
                   next_key_id, next_session_id, last_op, rbac_vars, calls,
                   mutations>>

\* The third write, setex("jwt:last_rotation", ...), and the return to the
\* caller; initialize then creates the scheduler task.
StoreLastRotationStep ==
    /\ rotation # <<>>
    /\ rotation[1].pc = "store_last_rotation"
    /\ last_rotation' = <<[time |-> now, expires |-> now + key_retention_period]>>
    /\ scheduler_started' = (scheduler_started \/ rotation[1].caller = "initialize")
    /\ last_op' = OpRec(rotation[1].caller, "", None, TRUE, "", {}, {})
    /\ rotation' = <<>>
    /\ UNCHANGED <<decode_responses, now, current_key, key_store, sessions,
                   user_sessions, issued, revoked, next_key_id,
                   next_session_id, rbac_vars, calls, mutations>>

\* Requests served while keys are generated and rotated; the clock moves
\* between rotations, not inside one.
NextRotate ==
    \/ next_key_id <= MaxKeys /\ InitializeBegin
    \/ next_key_id <= MaxKeys /\ SchedulerRotateBegin
    \/ StoreKeyStep
    \/ StoreLastRotationStep
    \/ \E a \in Audiences :
          next_session_id <= MaxSessions /\ CreateTokens("u1", a)
    \/ \E t \in Presented : VerifyTokenOp(t)
    \/ /\ now + TickStep <= MaxTime
       /\ rotation = <<>>
       /\ ~RotationPending
       /\ Tick(TickStep)

SpecRotate == Init /\ [][NextRotate]_vars

\* C22: in every state, the intermediate states of a rotation included, the
\* key_id of the key readable as current resolves through get_public_key.
C22_CurrentKeyResolves ==
    current_key # <<>> => GetPublicKey(current_key[1].data.key_id) # <<>>

(***************************************************************************)
(* Role administration against cached permission lists.                    *)
(***************************************************************************)
NextCache ==
    \/ NextRBAC
    \/ \E r \in CustomNames : DeleteRole(r)

SpecCache == Init /\ [][NextCache]_vars

\* The roles whose stored definition a step changes or removes.
Mutated == {r \in DOMAIN roles : GetRole(roles', r) # GetRole(roles, r)}

\* C23: when update_role or delete_role on role r has completed, no user who
\* holds r directly or reaches it through the inherits_from chain of an
\* assigned role still has a cached permission list.
C23_MutationDropsCache ==
    [][(rbac_op'.op \in {"update_role", "delete_role"} /\ rbac_op'.outcome = "ok")
          => \A u \in RbacUsers :
                ReachableRoles(u) \cap Mutated # {} => u \notin DOMAIN perm_cache']_vars

(***************************************************************************)
(* The scheduler task is never starved: a pass that finds a rotation due   *)
(* and can carry it out does so.                                           *)
(***************************************************************************)
SpecLive == Spec /\ WF_vars(next_key_id <= MaxKeys /\ SchedulerRotate)

\* More than rotation_interval has gone by since the stored last rotation.
Overdue ==
    /\ last_rotation # <<>>
    /\ now - last_rotation[1].time > key_rotation_interval

\* C24: once the scheduler runs and a rotation is due, a new current key is
\* eventually generated.
C24_DueRotationHappens ==
    \A k \in 1..MaxKeys :
        (scheduler_started /\ Overdue /\ next_key_id = k)
            ~> (next_key_id > k)

(***************************************************************************)
(* create_tokens and revoke_all_user_sessions call by call: each await of  *)
(* a Redis command is a point where another request may run.  A frame in   *)
(* `calls` holds the locals of one call in progress.                       *)
(***************************************************************************)
MaxRaceSessions == 7
MaxInFlight == 2
CallIds == 1..MaxInFlight

Frame(op, pc, user_id, session_id, key_data, todo, session_times) ==
    [op |-> op, pc |-> pc, user |-> user_id, session_id |-> session_id,
     key_data |-> key_data, todo |-> todo, session_times |-> session_times]

At(c, op, pc) == c \in DOMAIN calls /\ calls[c].op = op /\ calls[c].pc = pc

\* The variables no step of a request touches.
KeyState == <<decode_responses, now, current_key, key_store, last_rotation,
              scheduler_started, next_key_id, rbac_vars, rotation, mutations>>

\* create_tokens up to its first await: uuid4, _get_current_key.
CreateBegin(c, user_id) ==
    /\ c \notin DOMAIN calls
    /\ GetCurrentKey # <<>>
    /\ calls' = Put(calls, c, Frame("create_tokens", "store_session", user_id,
                                    next_session_id, GetCurrentKey[1], <<>>, {}))
    /\ next_session_id' = next_session_id + 1
    /\ UNCHANGED <<KeyState, sessions, user_sessions, issued, revoked, last_op>>

\* _store_session: setex(f"session:{session_id}", ...)
CreateStoreSession(c) ==
    /\ At(c, "create_tokens", "store_session")
    /\ sessions' = Put(sessions, calls[c].session_id,
                       [user_id |-> calls[c].user,
                        created_at |-> <<now, calls[c].session_id>>,
                        expires |-> now + session_timeout])
    /\ calls' = [calls EXCEPT ![c].pc = "sadd"]
    /\ UNCHANGED <<KeyState, user_sessions, issued, revoked, next_session_id,
                   last_op>>

\* _store_session: sadd(f"user_sessions:{user_id}", session_id)
CreateSAdd(c) ==
    /\ At(c, "create_tokens", "sadd")
    /\ user_sessions' = [user_sessions EXCEPT ![calls[c].user].members =
                            @ \cup {calls[c].session_id}]
    /\ calls' = [calls EXCEPT ![c].pc = "expire"]
    /\ UNCHANGED <<KeyState, sessions, issued, revoked, next_session_id, last_op>>

\* _store_session: expire(f"user_sessions:{user_id}", session_timeout); a key
\* that is not there is left alone.
CreateExpire(c) ==
    /\ At(c, "create_tokens", "expire")
    /\ user_sessions' =
          IF user_sessions[calls[c].user].members = {} THEN user_sessions
          ELSE [user_sessions EXCEPT ![calls[c].user].expires =
                                          now + session_timeout]
    /\ calls' = [calls EXCEPT ![c].pc = "smembers"]
    /\ UNCHANGED <<KeyState, sessions, issued, revoked, next_session_id, last_op>>

\* create_tokens returns its tokens.
CreateReturn(c) ==
    LET f == calls[c]
    IN /\ issued' = Put(issued, f.session_id,
              [access |-> SignToken(Claims(f.user, {}, access_token_lifetime,
                                           "access", f.session_id, now),
                                    f.key_data),
               refresh |-> SignToken(Claims(f.user, {}, refresh_token_lifetime,
                                            "refresh", f.session_id, now),
                                     f.key_data)])
       /\ last_op' = OpRec("create_tokens", f.user, f.session_id, TRUE, "",
                           {}, {})
       /\ calls' = Drop(calls, {c})

\* _enforce_session_limits: smembers, and the test of the cap.
CreateSMembers(c) ==
    /\ At(c, "create_tokens", "smembers")
    /\ LET members == user_sessions[calls[c].user].members
       IN IF Cardinality(members) > max_sessions_per_user
          THEN /\ calls' = [calls EXCEPT ![c].pc = "get_session",
                                         ![c].todo = ScanIter(members)]
               /\ UNCHANGED <<issued, last_op>>
          ELSE CreateReturn(c)
    /\ UNCHANGED <<KeyState, sessions, user_sessions, revoked, next_session_id>>

\* session_times.sort(key=lambda x: x[1]) over the (session_id, created_at)
\* pairs collected.
RECURSIVE SortTimes(_)
SortTimes(pairs) ==
    IF pairs = {} THEN <<>>
    ELSE LET first == CHOOSE p \in pairs :
                         \A o \in pairs \ {p} : Earlier(p[2], o[2])
         IN <<first[1]>> \o SortTimes(pairs \ {first})

\* _enforce_session_limits: one get(f"session:{session_id}") of the loop;
\* after the last one, the sort and the slice.
CreateGetSession(c) ==
    /\ At(c, "create_tokens", "get_session")
    /\ calls[c].todo # <<>>
    /\ LET member == Head(calls[c].todo)
           session_times ==
               IF FormatSessionId(member) \in DOMAIN sessions
               THEN calls[c].session_times
                       \cup {<<member, sessions[FormatSessionId(member)].created_at>>}
               ELSE calls[c].session_times
       IN calls' = IF Tail(calls[c].todo) # <<>>
                   THEN [calls EXCEPT ![c].todo = Tail(@),
                                      ![c].session_times = session_times]
                   ELSE [calls EXCEPT ![c].pc = "revoke",
                                      ![c].session_times = session_times,
                                      ![c].todo =
                                          AllButLast(SortTimes(session_times),
                                                     max_sessions_per_user)]
    /\ UNCHANGED <<KeyState, sessions, user_sessions, issued, revoked,
                   next_session_id, last_op>>

\* _enforce_session_limits: one revoke_session of the loop.
CreateRevoke(c) ==
    /\ At(c, "create_tokens", "revoke")
    /\ calls[c].todo # <<>>
    /\ LET final == RevokeSessionIn([sess |-> sessions, idx |-> user_sessions],
                                    Head(calls[c].todo))
       IN /\ sessions' = final.sess
          /\ user_sessions' = final.idx
    /\ revoked' = revoked \cup {Head(calls[c].todo)}
    /\ calls' = [calls EXCEPT ![c].todo = Tail(@)]
    /\ UNCHANGED <<KeyState, issued, next_session_id, last_op>>

\* The loop is over and create_tokens returns.
CreateDone(c) ==
    /\ At(c, "create_tokens", "revoke")
    /\ calls[c].todo = <<>>
    /\ CreateReturn(c)
    /\ UNCHANGED <<KeyState, sessions, user_sessions, revoked, next_session_id>>

\* revoke_all_user_sessions: smembers
RevokeAllBegin(c, user_id) ==
    /\ c \notin DOMAIN calls
    /\ calls' = Put(calls, c,
                    Frame("revoke_all_user_sessions", "delete_session", user_id,
                          None, <<>>,
                          ScanIter(user_sessions[user_id].members), {}))
    /\ UNCHANGED <<KeyState, sessions, user_sessions, issued, revoked,
                   next_session_id, last_op>>

\* revoke_all_user_sessions: one delete(f"session:{session_id}") of the loop
RevokeAllDeleteSession(c) ==
    /\ At(c, "revoke_all_user_sessions", "delete_session")
    /\ calls[c].todo # <<>>
    /\ sessions' = Drop(sessions, {FormatSessionId(Head(calls[c].todo))})
    /\ revoked' = revoked \cup {Head(calls[c].todo)}
    /\ calls' = [calls EXCEPT ![c].todo = Tail(@)]
    /\ UNCHANGED <<KeyState, user_sessions, issued, next_session_id, last_op>>

\* revoke_all_user_sessions: delete(f"user_sessions:{user_id}"), and return
RevokeAllDeleteIndex(c) ==
    /\ At(c, "revoke_all_user_sessions", "delete_session")
    /\ calls[c].todo = <<>>
    /\ user_sessions' = [user_sessions EXCEPT ![calls[c].user] = NoIndex]
    /\ last_op' = OpRec("revoke_all_user_sessions", calls[c].user, None, TRUE,
                        "", {}, {})
    /\ calls' = Drop(calls, {c})
    /\ UNCHANGED <<KeyState, sessions, issued, revoked, next_session_id>>

\* Requests of one user racing within one session lifetime; a create_tokens
\* that runs with nothing else in progress is the whole call at once.
NextRace ==
    \/ next_key_id <= 1 /\ Initialize
    \/ /\ calls = EmptyMap
       /\ next_session_id <= MaxRaceSessions
       /\ CreateTokens("u1", {})
    \/ \E c \in CallIds :
          \/ next_session_id <= MaxRaceSessions /\ CreateBegin(c, "u1")
          \/ CreateStoreSession(c)
          \/ CreateSAdd(c)
          \/ CreateExpire(c)
          \/ CreateSMembers(c)
          \/ CreateGetSession(c)
          \/ CreateRevoke(c)
          \/ CreateDone(c)
          \/ RevokeAllBegin(c, "u1")
          \/ RevokeAllDeleteSession(c)
          \/ RevokeAllDeleteIndex(c)

SpecRace == Init /\ [][NextRace]_vars

\* C25: when earlier calls have left a user with more than
\* max_sessions_per_user live sessions, a create_tokens for that user that runs
\* from start to end with no other call in progress leaves the user with at
\* most max_sessions_per_user live sessions.
C25_SoloIssuanceRestoresCap ==
    [][(/\ calls = EmptyMap
        /\ calls' = EmptyMap
        /\ Cardinality(LiveSessionsOf(sessions, last_op'.user))
              > max_sessions_per_user
        /\ next_session_id' > next_session_id
        /\ last_op'.op = "create_tokens"
        /\ last_op'.ok)
          => Cardinality(LiveSessionsOf(sessions', last_op'.user))
                <= max_sessions_per_user]_vars

\* C26: whenever no token-service call is in progress, each user's
\* active-session index holds exactly the ids of that user's live session
\* records.
C26_IndexIsLiveSessions ==
    calls = EmptyMap =>
        \A u \in Users : user_sessions[u].members = LiveSessionsOf(sessions, u)

(***************************************************************************)
(* assign_role_to_user and revoke_role_from_user call by call, next to a   *)
(* permission resolution in progress.  A frame in `mutations` holds the    *)
(* locals of one call; a call that has returned stays with pc = "done".    *)
(***************************************************************************)
MaxMutations == 3
MutationIds == 1..MaxMutations
MutationNames == {"viewer", "analyst"}

MutationFrame(op, pc, user_id, role_name, tenant_id, user_roles_read) ==
    [op |-> op, pc |-> pc, user |-> user_id, role |-> role_name,
     tenant_id |-> tenant_id, user_roles |-> user_roles_read]

\* assign_role_to_user: get_role, and the ValueError for a name not stored
AssignBegin(c, user_id, role_name, tenant_id) ==
    /\ c \notin DOMAIN mutations
    /\ mutations' = Put(mutations, c,
          MutationFrame("assign_role_to_user",
                        IF GetRole(roles, role_name) = <<>>
                        THEN "raised" ELSE "get_user_roles",
                        user_id, role_name, tenant_id, <<>>))
    /\ UNCHANGED <<decode_responses, auth_vars, rbac_vars, rotation, calls>>

\* assign_role_to_user: _get_user_roles, and the append to the list read
AssignRead(c) ==
    /\ c \in DOMAIN mutations
    /\ mutations[c].pc = "get_user_roles"
    /\ mutations' = [mutations EXCEPT
          ![c].pc = "set",
          ![c].user_roles = Append(GetUserRoles(user_roles, mutations[c].user),
                                   Assignment(mutations[c].role,
                                              mutations[c].tenant_id))]
    /\ UNCHANGED <<decode_responses, auth_vars, rbac_vars, rotation, calls>>

\* revoke_role_from_user: _get_user_roles, and the filter of the list read
RevokeBegin(c, user_id, role_name, tenant_id) ==
    /\ c \notin DOMAIN mutations
    /\ mutations' = Put(mutations, c,
          MutationFrame("revoke_role_from_user", "set", user_id, role_name,
                        tenant_id,
                        SelectSeq(GetUserRoles(user_roles, user_id),
                                  LAMBDA r : ~(r.role = role_name
                                               /\ r.tenant_id = tenant_id))))
    /\ UNCHANGED <<decode_responses, auth_vars, rbac_vars, rotation, calls>>

\* set(f"rbac:user_roles:{user_id}", json.dumps(user_roles))
MutationWrite(c) ==
    /\ c \in DOMAIN mutations
    /\ mutations[c].pc = "set"
    /\ user_roles' = Put(user_roles, mutations[c].user, mutations[c].user_roles)
    /\ mutations' = [mutations EXCEPT ![c].pc = "invalidate"]
    /\ UNCHANGED <<decode_responses, auth_vars, roles, perm_cache, rbac_op,
                   resolution, rotation, calls>>

\* _invalidate_user_cache, and the return
MutationInvalidate(c) ==
    /\ c \in DOMAIN mutations
    /\ mutations[c].pc = "invalidate"
    /\ perm_cache' = InvalidateUserCache(perm_cache, mutations[c].user)
    /\ rbac_op' = RbacOpRec(mutations[c].op, mutations[c].user,
                            mutations[c].role, "ok", NoRequest, FALSE,
                            mutations[c].user \in DOMAIN perm_cache)
    /\ mutations' = [mutations EXCEPT ![c].pc = "done"]
    /\ UNCHANGED <<decode_responses, auth_vars, roles, user_roles, resolution,
                   rotation, calls>>

\* The service after initialize(): the catalog stored, nobody assigned.
InitMutate ==
    /\ AuthInit
    /\ resolution = NoResolution
    /\ roles = SystemRoles
    /\ user_roles = EmptyMap
    /\ perm_cache = EmptyMap
    /\ rbac_op = RbacOpRec("initialize", Missing, Missing, "ok", NoRequest,
                           FALSE, FALSE)

NextMutate ==
    \/ \E c \in MutationIds, r \in MutationNames : AssignBegin(c, "u1", r, Missing)
    \/ \E c \in MutationIds : AssignRead(c)
    \/ \E c \in MutationIds, r \in MutationNames : RevokeBegin(c, "u1", r, Missing)
    \/ \E c \in MutationIds : MutationWrite(c)
    \/ \E c \in MutationIds : MutationInvalidate(c)
    \/ StartResolve("u1")
    \/ CollectStep
    \/ FinishResolve
    \/ ReturnResolve

SpecMutate == InitMutate /\ [][NextMutate]_vars

\* Every call that was started has returned.
Quiescent ==
    /\ resolution.phase = "idle"
    /\ \A c \in DOMAIN mutations : mutations[c].pc \in {"done", "raised"}

\* C27: once a resolution for u and the assignments and revocations for u
\* that ran next to it have all completed, the cached permission list of u,
\* if there is one, is the list resolved from u's stored assignments.
C27_CacheMatchesAssignments ==
    Quiescent =>
        \A u \in DOMAIN perm_cache :
            perm_cache[u] = ResolvePermissions(roles, user_roles, u)

\* C28: once the assignments and revocations started for a user have all
\* completed, the stored assignment list names every role that an
\* assign_role_to_user call assigned and no revoke_role_from_user call revoked.
C28_NoAssignmentLost ==
    Quiescent =>
        \A c \in DOMAIN mutations :
            (/\ mutations[c].op = "assign_role_to_user"
             /\ mutations[c].pc = "done"
             /\ ~\E d \in DOMAIN mutations :
                    /\ mutations[d].op = "revoke_role_from_user"
                    /\ mutations[d].user = mutations[c].user
                    /\ mutations[d].role = mutations[c].role)
                => mutations[c].role
                      \in Range(AssignedNames(user_roles, mutations[c].user))

\* C29: while a token has not reached its exp and its session was never
\* revoked or evicted, the session record and the stored record of the key
\* that signed it are still there, so that verify_token can accept it.
C29_RecordsOutliveTokens ==
    \A s \in DOMAIN issued :
        \A t \in {issued[s].access, issued[s].refresh} :
            (t.payload.exp > now /\ s \notin revoked)
                => /\ IsSessionValid(s)
                   /\ GetPublicKey(t.kid) # <<>>

\* The context lacks a field the predicate of the condition compares.
LacksFields(key, context) ==
    \/ /\ key = "same_tenant"
       /\ Missing \in {context.user_tenant_id, context.resource_tenant_id}
    \/ /\ key = "owner"
       /\ Missing \in {context.user_id, context.resource_owner_id}

\* C30: a permission guarded by same_tenant or owner with expected value true
\* matches no request whose context lacks a field the predicate compares, so no
\* check_permission is granted on the basis of such a permission.
C30_MissingFieldsNeverMatch ==
    \A u \in RbacUsers :
        LET permissions == PermissionsOf(u)
        IN \A q \in Requests, i \in 1..Len(permissions) :
              (\E c \in permissions[i].conditions :
                    c[2] /\ LacksFields(c[1], q.context))
                 => ~Matches(permissions[i], q)

====
